---- MODULE Spec2Model ----
(***************************************************************************)
(* Model of the nRF5x TRNG driver, chips/nrf5x/src/trng.rs.                *)
(*                                                                         *)
(* The driver assembles a 32-bit word from four one-byte samples of the    *)
(* RNG peripheral, one sample per VALRDY interrupt, and hands the word to  *)
(* the registered rng::Client through the one-shot iterator TrngIter.      *)
(*                                                                         *)
(* A u32 is represented by its four base-256 digits, least significant     *)
(* first: w[0] holds bits 0..7 and w[3] holds bits 24..31.  The shift and  *)
(* the OR of the source are computed on that representation, truncated to  *)
(* 32 bits as in the source.                                               *)
(***************************************************************************)
EXTENDS Integers, Sequences, FiniteSets, TLC

VARIABLES
    index,        \* Trng.index       : Cell<usize>
    randomness,   \* Trng.randomness  : Cell<u32>
    client,       \* Trng.client      : Cell<Option<&Client>>, NoClient = None
    hw,           \* RNG peripheral registers and the NVIC line of the RNG
    last,         \* history: what the last operation was and what it did
    cycle,        \* history: the bytes read since randomness was last zeroed
    orphaned,     \* history: the stored word met a handler with no client
    registered,   \* history: the argument of the latest set_client call
    replaced,     \* history: the argument of the set_client call before that
    cycles        \* history: words yielded so far, saturating at MaxCycles

vars == <<index, randomness, client, hw, last, cycle, orphaned, registered,
          replaced, cycles>>

----------------------------------------------------------------------------
(* Bounds of the model *)

\* number of distinct byte samples the peripheral may produce
NumBytes == 2
\* number of distinct consumers that may be registered
NumClients == 2
\* greatest number of times one callback draws from the iterator
MaxDraws == 2
\* greatest counter value a forced initial state starts from
MaxIndex == 5
\* the word counter saturates here
MaxCycles == 5

----------------------------------------------------------------------------
(* Values *)

\* the i-th byte sample of the peripheral: 85, 170, 255, 84, ... (0..255)
SampleByte(i) == (i * 85) % 256

Bytes == { SampleByte(i) : i \in 1..NumBytes }

Clients == 1..NumClients

\* Option<&Client>::None
NoClient == 0

\* the digits of a u32
Limbs == 0..3

\* the u32 zero
W0 == [i \in Limbs |-> 0]

\* a register value 0..255 widened to u32, as regs.value.get() returns it
ByteWord(b) == [i \in Limbs |-> IF i = 0 THEN b ELSE 0]

\* Option<u32>
None == [some |-> FALSE, val |-> W0]
Some(w) == [some |-> TRUE, val |-> w]

RECURSIVE BitOr8(_, _, _)
\* a | b on n-bit values
BitOr8(a, b, n) ==
    IF n = 0 THEN 0
    ELSE (IF (a % 2) + (b % 2) > 0 THEN 1 ELSE 0)
         + 2 * BitOr8(a \div 2, b \div 2, n - 1)

\* a | b on u32
OrWord(a, b) == [i \in Limbs |-> BitOr8(a[i], b[i], 8)]

\* a shift that puts the first byte on top: r << (24 - n)
ShlMsbFirst(r, n) == [i \in Limbs |-> IF i - ((24 - n) \div 8) >= 0
                                      THEN r[i - ((24 - n) \div 8)] ELSE 0]

\* r << n on u32 for n a multiple of 8 below 32: bits shifted past bit 31 are lost
Shl(r, n) == [i \in Limbs |-> IF i - (n \div 8) >= 0 THEN r[i - (n \div 8)] ELSE 0]

----------------------------------------------------------------------------
(* The peripheral and the interrupt controller *)

\* registers after reset; log collects the register accesses of one operation
Hw0 == [event_valrdy |-> 0, inten |-> 0, nvic_en |-> 0, nvic_pend |-> 0,
        started |-> 0, value |-> 0, log |-> <<>>]

\* F applied to the value of x, with x evaluated once
Let(x, F(_)) == CHOOSE r \in { F(v) : v \in {x} } : TRUE

\* the NVIC latches the RNG line as pending while VALRDY is set and enabled
Latch(h) ==
    Let(h, LAMBDA g : IF g.event_valrdy = 1 /\ g.inten = 1
                      THEN [g EXCEPT !.nvic_pend = 1] ELSE g)

\* one access to a register or to a field of the driver, recorded with the
\* flags it found
Access(h, reg, val) ==
    [reg |-> reg, val |-> val, ev |-> h.event_valrdy, inten |-> h.inten,
     nvic |-> h.nvic_en, pend |-> h.nvic_pend]

Logged(h, reg, val) ==
    Let(h, LAMBDA g : [g EXCEPT !.log = Append(@, Access(g, reg, val))])

\* regs.inten.set(1); regs.intenset.set(1)
enable_interrupts(h) ==
    Latch([Logged(Latch([Logged(h, "inten", 1) EXCEPT !.inten = 1]),
                  "intenset", 1) EXCEPT !.inten = 1])

\* regs.intenclr.set(1); regs.inten.set(0)
disable_interrupts(h) ==
    Latch([Logged(Latch([Logged(h, "intenclr", 1) EXCEPT !.inten = 0]),
                  "inten", 0) EXCEPT !.inten = 0])

enable_nvic(h) == [Logged(h, "nvic_enable", 1) EXCEPT !.nvic_en = 1]

disable_nvic(h) == [Logged(h, "nvic_disable", 1) EXCEPT !.nvic_en = 0]

clear_pending(h) == Latch([Logged(h, "nvic_clear_pending", 1) EXCEPT !.nvic_pend = 0])

clear_valrdy(h) == [Logged(h, "event_valrdy", 0) EXCEPT !.event_valrdy = 0]

task_start(h) == [Logged(h, "task_start", 1) EXCEPT !.started = 1]

read_value(h) == Let(h, LAMBDA g : Logged(g, "value", g.value))

\* a start routine that triggers the start task before enabling the interrupt
start_rngStartsFirst(h) == enable_interrupts(enable_nvic(task_start(clear_valrdy(h))))

\* a start routine that masks the interrupt again when it finds it enabled
start_rngToggles(h) ==
    Let(h, LAMBDA g :
        IF g.inten = 1 /\ g.nvic_en = 1
        THEN disable_nvic(disable_interrupts(clear_valrdy(g)))
        ELSE task_start(enable_interrupts(enable_nvic(clear_valrdy(g)))))

start_rng(h) == task_start(enable_interrupts(enable_nvic(clear_valrdy(h))))

\* self.index.set(v) and self.randomness.set(w), recorded among the accesses
set_index(h, v) == Logged(h, "index", v)

set_randomness(h, w) == Logged(h, "randomness", w)

\* the registers alone, without the accesses collected
Regs(h) == [h EXCEPT !.log = <<>>]

\* the interrupt source is masked and nothing is pending
Masked(h) == h.inten = 0 /\ h.nvic_en = 0 /\ h.nvic_pend = 0

\* an operation with these accesses triggered the start task
Rearmed(log) == \E k \in 1..Len(log) : log[k].reg = "task_start"

----------------------------------------------------------------------------
(* TrngIter *)

\* an iterator that forgets to zero the counter
TrngIter_nextKeepsIndex(idx, rn) ==
    IF idx = 4
    THEN [index |-> idx, randomness |-> W0, item |-> Some(rn)]
    ELSE [index |-> idx, randomness |-> rn, item |-> None]

\* an iterator that zeroes the accumulator before reading it
TrngIter_nextZeroFirst(idx, rn) ==
    IF idx = 4
    THEN [index |-> 0, randomness |-> W0, item |-> Some(W0)]
    ELSE [index |-> idx, randomness |-> rn, item |-> None]

\* an iterator that zeroes counter and accumulator whatever the counter is
TrngIter_nextAlwaysResets(idx, rn) ==
    [index |-> 0, randomness |-> W0, item |-> IF idx = 4 THEN Some(rn) ELSE None]

\* an iterator that yields the word and zeroes nothing
TrngIter_nextNoReset(idx, rn) ==
    IF idx = 4
    THEN [index |-> idx, randomness |-> rn, item |-> Some(rn)]
    ELSE [index |-> idx, randomness |-> rn, item |-> None]

\* an iterator that forgets to zero the accumulator
TrngIter_nextKeepsWord(idx, rn) ==
    IF idx = 4
    THEN [index |-> 0, randomness |-> rn, item |-> Some(rn)]
    ELSE [index |-> idx, randomness |-> rn, item |-> None]

TrngIter_next(idx, rn) ==
    IF idx = 4
    THEN [index |-> 0, randomness |-> W0, item |-> Some(rn)]
    ELSE [index |-> idx, randomness |-> rn, item |-> None]

RECURSIVE DrawN(_, _, _)
\* a callback that draws n times from the iterator it is given
DrawN(idx, rn, n) ==
    IF n = 0
    THEN [index |-> idx, randomness |-> rn, yields |-> <<>>]
    ELSE LET r == TrngIter_next(idx, rn)
             rest == DrawN(r.index, r.randomness, n - 1)
         IN  [index |-> rest.index, randomness |-> rest.randomness,
              yields |-> <<r.item>> \o rest.yields]

----------------------------------------------------------------------------
(* Trng *)

\* what one operation did, kept until the next operation
Quiet == [op |-> "new", prevOp |-> "none", preIndex |-> 0, preRandomness |-> W0,
          preCycle |-> <<>>, preOrphaned |-> FALSE, branch |-> "none",
          called |-> NoClient, yields |-> <<>>, result |-> "none", log |-> <<>>]

\* the number of words a callback obtained
Yielded(ys) == Cardinality({k \in 1..Len(ys) : ys[k].some})

\* rn |= r << 8 * e
Accumulate(rn, r, e) == OrWord(rn, Shl(r, 8 * e))

\* a handler that re-arms whatever the callback returns
RearmAlways(res, h) == start_rng(h)

\* if Continue::Done != result { self.start_rng() }
Rearm(res, h) == IF res # "Done" THEN start_rng(h) ELSE h

\* the outcome of a handler invocation that changes nothing but the registers
Outcome(idx, rn, h, branch) ==
    [index |-> idx, randomness |-> rn, hw |-> h, branch |-> branch,
     called |-> NoClient, yields |-> <<>>, result |-> "none", byte |-> 0]

\* an arm e @ 0...3 that does not ask for another interrupt once the fourth
\* byte is stored
CollectingStopsAtFour(e, rn, h0) ==
    Let(h0, LAMBDA g :
        LET r == ByteWord(g.value)
            h1 == set_index(set_randomness(read_value(g), Accumulate(rn, r, e)),
                            e + 1)
        IN  [Outcome(e + 1, Accumulate(rn, r, e),
                     IF e + 1 = 4 THEN h1 ELSE start_rng(h1), "collecting")
                EXCEPT !.byte = g.value])

\* an arm e @ 0...3 that asks for the next interrupt before it stores the byte
CollectingRearmsFirst(e, rn, h0) ==
    Let(h0, LAMBDA g :
        LET r == ByteWord(g.value)
        IN  [Outcome(e + 1, Accumulate(rn, r, e),
                     set_index(set_randomness(start_rng(read_value(g)),
                                              Accumulate(rn, r, e)), e + 1),
                     "collecting")
                EXCEPT !.byte = g.value])

\* the arm e @ 0...3
Collecting(e, rn, h0) ==
    Let(h0, LAMBDA g :
        LET r == ByteWord(g.value)
        IN  [Outcome(e + 1, Accumulate(rn, r, e),
                     start_rng(set_index(set_randomness(read_value(g),
                                                        Accumulate(rn, r, e)),
                                         e + 1)),
                     "collecting")
                EXCEPT !.byte = g.value])

RECURSIVE Drawn(_, _)
\* the field writes of the draws that gave ys: each word yielded comes with
\* self.0.index.set(0); self.0.randomness.set(0)
Drawn(h, ys) ==
    IF ys = <<>> THEN h
    ELSE Drawn(IF Head(ys).some THEN set_randomness(set_index(h, 0), W0) ELSE h,
               Tail(ys))

\* an arm 4 that zeroes the state when there is no client
ReadyDiscards(idx, rn, cl, h0, n, res) ==
    IF cl = NoClient
    THEN Outcome(0, W0, set_randomness(set_index(h0, 0), W0), "ready")
    ELSE LET d == DrawN(idx, rn, n)
         IN  [Outcome(d.index, d.randomness, Rearm(res, Drawn(h0, d.yields)),
                      "ready")
                 EXCEPT !.called = cl, !.yields = d.yields, !.result = res]

\* an arm 4 that reads the value register before it looks for the client
ReadyReads(idx, rn, cl, h0, n, res) ==
    IF cl = NoClient
    THEN Outcome(idx, rn, read_value(h0), "ready")
    ELSE LET d == DrawN(idx, rn, n)
         IN  [Outcome(d.index, d.randomness,
                      Rearm(res, Drawn(read_value(h0), d.yields)), "ready")
                 EXCEPT !.called = cl, !.yields = d.yields, !.result = res]

\* the arm 4: self.client.get().map(|client| ...), with a callback that draws
\* n times from TrngIter(self) and returns res
Ready(idx, rn, cl, h0, n, res) ==
    IF cl = NoClient
    THEN Outcome(idx, rn, h0, "ready")
    ELSE LET d == DrawN(idx, rn, n)
         IN  [Outcome(d.index, d.randomness, Rearm(res, Drawn(h0, d.yields)),
                      "ready")
                 EXCEPT !.called = cl, !.yields = d.yields, !.result = res]

\* an arm _ that restarts generation after zeroing the state
InvalidRestarts(idx, rn, h0) ==
    Outcome(0, W0, start_rng(set_randomness(set_index(h0, 0), W0)), "invalid")

\* an arm _ that forgets to zero the accumulator
InvalidKeepsWord(idx, rn, h0) == Outcome(0, rn, set_index(h0, 0), "invalid")

\* the arm _
Invalid(idx, rn, h0) ==
    Outcome(0, W0, set_randomness(set_index(h0, 0), W0), "invalid")

\* a handler whose first arm is e @ 0...4
handle_interruptWideArm(idx, rn, cl, h, n, res) ==
    LET h0 == clear_pending(disable_nvic(disable_interrupts(h)))
    IN  CASE idx \in 0..4 -> Collecting(idx, rn, h0)
          [] OTHER -> Invalid(idx, rn, h0)

\* handle_interrupt on counter idx, accumulator rn, client cl and registers h,
\* with a callback that draws n times and returns res
handle_interrupt(idx, rn, cl, h, n, res) ==
    LET h0 == clear_pending(disable_nvic(disable_interrupts(h)))
    IN  CASE idx \in 0..3 -> Collecting(idx, rn, h0)
          [] idx = 4 -> Ready(idx, rn, cl, h0, n, res)
          [] OTHER -> Invalid(idx, rn, h0)

\* a registration that keeps the first client
set_clientKeepsFirst(cl, c) == IF cl = NoClient THEN c ELSE cl

\* self.client.set(Some(client)), on the present registration cl
set_client(cl, c) == c

----------------------------------------------------------------------------
(* Actions *)

Init ==
    /\ index = 0
    /\ randomness = W0
    /\ client = NoClient
    /\ hw = Hw0
    /\ last = Quiet
    /\ cycle = <<>>
    /\ orphaned = FALSE
    /\ registered = NoClient
    /\ replaced = NoClient
    /\ cycles = 0

\* the peripheral, once started, produces a byte and raises VALRDY
HwValueReady ==
    /\ hw.started = 1
    /\ \E b \in Bytes :
          hw' = Latch([hw EXCEPT !.value = b, !.event_valrdy = 1])
    /\ last' = [Quiet EXCEPT !.op = "hw"]
    /\ UNCHANGED <<index, randomness, client, cycle, orphaned, registered,
                     replaced, cycles>>

\* a get() that also starts the word over
GetRestarts ==
    \E h \in {start_rng(hw)} :
        /\ hw' = Regs(h)
        /\ index' = 0
        /\ randomness' = W0
        /\ last' = [Quiet EXCEPT !.op = "get", !.prevOp = last.op,
                                 !.preIndex = index,
                                 !.preRandomness = randomness,
                                 !.preCycle = cycle, !.preOrphaned = orphaned,
                                 !.log = h.log]
        /\ UNCHANGED <<client, cycle, orphaned, registered, replaced, cycles>>

\* RNG::get
Get ==
    \E h \in {start_rng(hw)} :
        /\ hw' = Regs(h)
        /\ last' = [Quiet EXCEPT !.op = "get", !.prevOp = last.op,
                                 !.preIndex = index,
                                 !.preRandomness = randomness,
                                 !.preCycle = cycle, !.preOrphaned = orphaned,
                                 !.log = h.log]
        /\ UNCHANGED <<index, randomness, client, cycle, orphaned, registered,
                     replaced, cycles>>

\* Trng::set_client
SetClient ==
    \E c \in Clients :
        /\ client' = set_client(client, c)
        /\ registered' = c
        /\ replaced' = registered
        /\ last' = [Quiet EXCEPT !.op = "set_client", !.preIndex = index,
                                 !.preRandomness = randomness,
                                 !.preCycle = cycle, !.preOrphaned = orphaned]
        /\ UNCHANGED <<index, randomness, hw, cycle, orphaned, cycles>>

\* the handler is about to invoke the callback of a registered client
Calls == index = 4 /\ client # NoClient

\* Trng::handle_interrupt, run when the NVIC has the RNG line enabled and pending;
\* the callback draws some n in ns times and returns some res in rs
HandleInterruptWith(ns, rs) ==
    /\ hw.nvic_en = 1
    /\ hw.nvic_pend = 1
    /\ \E n \in IF Calls THEN ns ELSE {0}, res \in IF Calls THEN rs ELSE {"none"} :
         \E p \in {handle_interrupt(index, randomness, client, hw, n, res)} :
         LET got == Yielded(p.yields)
         IN  /\ index' = p.index
             /\ randomness' = p.randomness
             /\ hw' = Regs(p.hw)
             /\ last' = [op |-> "irq", prevOp |-> "none", preIndex |-> index,
                         preRandomness |-> randomness, preCycle |-> cycle,
                         preOrphaned |-> orphaned, branch |-> p.branch,
                         called |-> p.called, yields |-> p.yields,
                         result |-> p.result, log |-> p.hw.log]
             /\ cycle' = CASE p.branch = "collecting" -> Append(cycle, p.byte)
                           [] p.branch = "invalid" -> <<>>
                           [] OTHER -> IF got > 0 THEN <<>> ELSE cycle
             /\ orphaned' = CASE p.branch = "collecting" -> orphaned
                              [] p.branch = "invalid" -> FALSE
                              [] OTHER -> IF p.called = NoClient THEN TRUE
                                          ELSE IF got > 0 THEN FALSE ELSE orphaned
             /\ cycles' = IF cycles + got < MaxCycles THEN cycles + got ELSE MaxCycles
             /\ UNCHANGED <<client, registered, replaced>>

\* a consumer that may draw any number of times and return Done or More
HandleInterrupt == HandleInterruptWith(0..MaxDraws, {"Done", "More"})

Next == HwValueReady \/ Get \/ SetClient \/ HandleInterrupt

Spec == Init /\ [][Next]_vars

----------------------------------------------------------------------------
(* The driver with its counter forced to any value up to MaxIndex *)

InitForced ==
    /\ index \in 0..MaxIndex
    /\ randomness \in {W0} \cup { ByteWord(b) : b \in Bytes }
    /\ client \in {NoClient} \cup Clients
    /\ hw = Hw0
    /\ last = Quiet
    /\ cycle = <<>>
    /\ orphaned = FALSE
    /\ registered = client
    /\ replaced = NoClient
    /\ cycles = 0

SpecForced == InitForced /\ [][Next]_vars

----------------------------------------------------------------------------
(* One consumer that registers, calls get() once, and whose callback always *)
(* draws the word and returns More                                          *)

SetClientOnce == client = NoClient /\ SetClient

GetOnce == client # NoClient /\ hw.started = 0 /\ Get

HandleInterruptMore == HandleInterruptWith({1}, {"More"})

NextMore == SetClientOnce \/ GetOnce \/ HwValueReady \/ HandleInterruptMore

\* the peripheral keeps producing bytes once started, and a pending enabled
\* interrupt is served
SpecMore ==
    /\ Init /\ [][NextMore]_vars
    /\ WF_vars(HwValueReady)
    /\ WF_vars(HandleInterruptMore)

----------------------------------------------------------------------------
(* The driver with its counter forced, a consumer whose callback always     *)
(* draws the word and returns More, a peripheral that keeps producing bytes *)
(* once started, and a pending enabled interrupt that is always served      *)

NextRecover == Get \/ SetClient \/ HwValueReady \/ HandleInterruptMore

SpecRecover ==
    /\ InitForced /\ [][NextRecover]_vars
    /\ WF_vars(HwValueReady)
    /\ WF_vars(HandleInterruptMore)

----------------------------------------------------------------------------
(* TrngIter::next alone, on any counter up to MaxIndex and any accumulator *)
(* made of zero bytes and sample bytes                                      *)

InitIter ==
    /\ index \in 0..MaxIndex
    /\ randomness \in [Limbs -> {0} \cup Bytes]
    /\ client = NoClient
    /\ hw = Hw0
    /\ last = Quiet
    /\ cycle = <<>>
    /\ orphaned = FALSE
    /\ registered = NoClient
    /\ replaced = NoClient
    /\ cycles = 0

\* one call of TrngIter::next
Draw ==
    \E r \in {TrngIter_next(index, randomness)} :
        /\ index' = r.index
        /\ randomness' = r.randomness
        /\ last' = [Quiet EXCEPT !.op = "draw", !.preIndex = index,
                                 !.preRandomness = randomness,
                                 !.yields = <<r.item>>]
        /\ UNCHANGED <<client, hw, cycle, orphaned, registered, replaced, cycles>>

SpecIter == InitIter /\ [][Draw]_vars

----------------------------------------------------------------------------
(* Properties *)

\* the u32 whose byte k is the k-th element of bs, first byte lowest
WordOf(bs) == [i \in Limbs |-> IF i + 1 <= Len(bs) THEN bs[i + 1] ELSE 0]

\* the last operation was a handler invocation whose callback obtained a word
Delivered == last.op = "irq" /\ Yielded(last.yields) > 0

\* the last operation was a handler invocation that called the callback
ReadyCall == last.op = "irq" /\ last.preIndex = 4 /\ last.called # NoClient

\* the last operation was a handler invocation that found a completed word
\* and no client
ReadyNoClient == last.op = "irq" /\ last.preIndex = 4 /\ client = NoClient

\* generation is armed: VALRDY cleared, both enables on, the start task triggered
Armed(h) == h.event_valrdy = 0 /\ h.inten = 1 /\ h.nvic_en = 1 /\ h.started = 1

\* C1: a word the iterator yields is made of the four bytes read by the four
\* handler invocations since the accumulator was zero, the first byte in bits
\* 0..7 and the fourth in bits 24..31.
C1_LittleEndianWord ==
    Delivered =>
        /\ Len(last.preCycle) = 4
        /\ \E k \in 1..Len(last.yields) :
              /\ last.yields[k] = Some(WordOf(last.preCycle))
              /\ \A i \in Limbs : last.yields[k].val[i] = last.preCycle[i + 1]

C1_Witness ==
    /\ Delivered
    /\ last.preCycle[1] # last.preCycle[4]
    /\ last.preCycle[2] # last.preCycle[3]
    /\ last.preCycle[1] # last.preCycle[2]

\* C2: a handler invocation that finds a completed word and a registered client
\* calls that client; it triggers the start task exactly when the callback did
\* not return Done, leaving generation armed, and when the callback returned
\* Done it leaves the interrupt masked; a masked interrupt stays masked, and no
\* handler runs, until the next get().
C2_RearmIffNotDone ==
    /\ [](last.op = "irq" /\ last.preIndex = 4 /\ client # NoClient =>
            /\ last.called = client
            /\ Rearmed(last.log) <=> last.result # "Done"
            /\ last.result = "Done" => Masked(hw)
            /\ last.result # "Done" => Armed(hw))
    /\ [][Masked(hw) /\ last'.op # "get" => Masked(hw') /\ last'.op # "irq"]_vars

C2_Witness == ReadyCall /\ last.result = "Done" /\ Masked(hw) /\ hw.event_valrdy = 1

\* C3 as stated: after get() with no client and four bytes, the handler that
\* finds the completed word leaves counter and accumulator at 0 and does not
\* re-arm.
C3_Original ==
    ReadyNoClient => index = 0 /\ randomness = W0 /\ ~Rearmed(last.log)

\* C3 amended: the handler that finds the completed word and no client calls
\* nobody and does not re-arm, and it keeps the word: the counter stays 4 and
\* the accumulator still holds the four bytes.
C3_WordKeptNoRearm ==
    ReadyNoClient =>
        /\ index = 4
        /\ randomness = last.preRandomness
        /\ randomness = WordOf(cycle)
        /\ last.called = NoClient
        /\ last.yields = <<>>
        /\ ~Rearmed(last.log)
        /\ Masked(hw)

C3_Witness ==
    ReadyNoClient /\ registered = NoClient /\ Len(cycle) = 4 /\ randomness # W0

\* C4 as stated: a word that met a handler with no client is never yielded to
\* any consumer.
C4_Original == ~(Delivered /\ last.preOrphaned)

\* C4 amended: a word that met a handler with no client stays stored (counter 4,
\* accumulator intact), and it leaves the store only by being yielded to the
\* client registered at a later handler invocation.
C4_WordKeptForLaterClient ==
    /\ [](orphaned => index = 4 /\ Len(cycle) = 4 /\ randomness = WordOf(cycle))
    /\ [][orphaned /\ ~orphaned' =>
            /\ last'.op = "irq"
            /\ last'.called = client
            /\ client # NoClient
            /\ last'.yields[1] = Some(randomness)]_vars

C4_Witness == Delivered /\ last.preOrphaned /\ last.called = registered

\* C5: the first draw of a callback called with a completed word yields the
\* accumulator and zeroes counter and accumulator; every later draw of that
\* callback yields nothing.
C5_OneWordPerCallback ==
    ReadyCall /\ Len(last.yields) >= 1 =>
        /\ last.yields[1] = Some(last.preRandomness)
        /\ index = 0
        /\ randomness = W0
        /\ \A k \in 2..Len(last.yields) : last.yields[k] = None
        /\ Yielded(last.yields) = 1

C5_Witness ==
    ReadyCall /\ Len(last.yields) >= 2 /\ last.preRandomness # W0

\* C6: with a callback that always draws the word and returns More, after the
\* one get() every delivery leaves generation armed and yields the four bytes
\* of its own cycle, first byte lowest; words keep being delivered for ever,
\* and MaxCycles deliveries are reached.
C6_RearmsForever ==
    /\ [](Delivered =>
            /\ last.result = "More"
            /\ Len(last.preCycle) = 4
            /\ last.yields = <<Some(WordOf(last.preCycle))>>
            /\ cycle = <<>>
            /\ Armed(hw))
    /\ (hw.started = 1) ~> Delivered
    /\ []<>(hw.started = 0 \/ Delivered)
    /\ (hw.started = 1) ~> (cycles = MaxCycles)

C6_Witness ==
    /\ Delivered
    /\ cycles = MaxCycles
    /\ last.preCycle[1] # last.preCycle[4]

\* C7: a callback is only ever invoked on the client given to the latest
\* set_client call, never on the one that call replaced.
C7_LatestRegistrationOnly ==
    /\ client = registered
    /\ last.op = "irq" /\ last.called # NoClient =>
          /\ last.called = registered
          /\ replaced # registered => last.called # replaced

C7_Witness ==
    /\ Delivered
    /\ replaced # NoClient
    /\ replaced # registered
    /\ last.called = registered

\* C8: a handler invocation that finds the counter above 4 zeroes counter and
\* accumulator, calls no callback and yields no word.
C8_InvalidResets ==
    last.op = "irq" /\ last.preIndex > 4 =>
        /\ last.branch = "invalid"
        /\ index = 0
        /\ randomness = W0
        /\ last.called = NoClient
        /\ last.yields = <<>>

C8_Witness ==
    /\ last.op = "irq"
    /\ last.preIndex = 5
    /\ last.preRandomness # W0
    /\ client # NoClient
    /\ index = 0

\* the registers an operation accessed, in order
RegsOf(log) == [k \in 1..Len(log) |-> log[k].reg]

\* C9: get() clears VALRDY, enables the NVIC line, sets the peripheral enable
\* bits and then triggers the start task, in that order; no operation triggers
\* the start task with VALRDY set or with either enable off.
C9_StartOrder ==
    /\ last.op = "get" =>
          RegsOf(last.log) =
              <<"event_valrdy", "nvic_enable", "inten", "intenset", "task_start">>
    /\ \A k \in 1..Len(last.log) :
          last.log[k].reg = "task_start" =>
              last.log[k].ev = 0 /\ last.log[k].inten = 1 /\ last.log[k].nvic = 1

C9_Witness ==
    /\ last.op = "get"
    /\ last.log[1].ev = 1
    /\ last.log[1].inten = 0
    /\ last.log[1].nvic = 0

\* C10: get() leaves generation armed and counter and accumulator as they
\* were; a get() that directly follows a get() changes no register and no
\* driver field.
C10_GetIdempotent ==
    /\ [](last.op = "get" =>
            /\ Armed(hw)
            /\ index = last.preIndex
            /\ randomness = last.preRandomness)
    /\ [][last.op = "get" /\ last'.op = "get" =>
            /\ hw' = hw
            /\ index' = index
            /\ randomness' = randomness
            /\ client' = client]_vars

C10_Witness ==
    /\ last.op = "get"
    /\ last.prevOp = "get"
    /\ index \in 1..3
    /\ Armed(hw)

\* the number of accesses to register reg among log
Count(log, reg) == Cardinality({k \in 1..Len(log) : log[k].reg = reg})

\* C11: the counter is always one of 0, 1, 2, 3, 4.
C11_IndexInRange == index \in 0..4

C11_Witness == last.op = "irq" /\ last.preIndex = 4 /\ index = 4 /\ Rearmed(last.log)

\* C12: the accumulator is zero in every byte position from the counter
\* upwards, and a handler invocation that stores a byte puts exactly that byte
\* in the position the counter pointed at, which was zero, leaving the
\* positions below as they were.
C12_BytesBelowIndex ==
    /\ \A i \in Limbs : i >= index => randomness[i] = 0
    /\ last.op = "irq" /\ last.preIndex \in 0..3 =>
          /\ last.preRandomness[last.preIndex] = 0
          /\ randomness[last.preIndex] = cycle[Len(cycle)]
          /\ \A i \in Limbs : i # last.preIndex => randomness[i] = last.preRandomness[i]

C12_Witness ==
    /\ last.op = "irq"
    /\ last.preIndex = 2
    /\ index = 3
    /\ randomness[0] # randomness[1]
    /\ randomness[2] # 0

\* C13 as stated: every handler invocation reads the value register exactly
\* once.
C13_Original == last.op = "irq" => Count(last.log, "value") = 1

\* C13 amended: a handler invocation reads the value register exactly once
\* when it finds the counter in 0..3, and does not read it otherwise.
C13_ReadsOnlyWhenCollecting ==
    last.op = "irq" =>
        Count(last.log, "value") = IF last.preIndex \in 0..3 THEN 1 ELSE 0

C13_Witness ==
    /\ last.op = "irq"
    /\ last.preIndex = 4
    /\ last.called # NoClient
    /\ Count(last.log, "value") = 0

\* C14: a handler invocation that finds the counter at e in 0..3 stores the
\* byte in position e, sets the counter to e + 1, triggers the start task and
\* leaves generation armed, also for e = 3, and calls no callback.
C14_CollectingAlwaysRearms ==
    last.op = "irq" /\ last.preIndex \in 0..3 =>
        /\ last.branch = "collecting"
        /\ index = last.preIndex + 1
        /\ cycle = Append(last.preCycle, randomness[last.preIndex])
        /\ Count(last.log, "task_start") = 1
        /\ Armed(hw)
        /\ last.called = NoClient
        /\ last.yields = <<>>

C14_Witness ==
    /\ last.op = "irq"
    /\ last.preIndex = 3
    /\ index = 4
    /\ client # NoClient
    /\ Armed(hw)

\* the accesses with which every handler invocation begins
EntryMasking == <<"intenclr", "inten", "nvic_disable", "nvic_clear_pending">>

\* C15: a handler invocation begins by clearing the peripheral enable bits,
\* disabling the NVIC line and clearing the pending flag; every read of the
\* value register and every write of counter or accumulator comes after that
\* and finds the interrupt disabled and not pending; from the entry masking to
\* the end of the invocation the line is never both enabled and pending, so no
\* second invocation can begin.
C15_MaskedWhileMutating ==
    last.op = "irq" =>
        /\ Len(last.log) >= Len(EntryMasking)
        /\ \A k \in 1..Len(EntryMasking) : last.log[k].reg = EntryMasking[k]
        /\ \A k \in 1..Len(last.log) :
              /\ last.log[k].reg \in {"index", "randomness", "value"} =>
                    /\ k > Len(EntryMasking)
                    /\ last.log[k].inten = 0
                    /\ last.log[k].nvic = 0
                    /\ last.log[k].pend = 0
              /\ k > Len(EntryMasking) =>
                    ~(last.log[k].nvic = 1 /\ last.log[k].pend = 1)
        /\ ~(hw.nvic_en = 1 /\ hw.nvic_pend = 1)

C15_Witness ==
    /\ last.op = "irq"
    /\ last.log[1].nvic = 1
    /\ last.log[1].pend = 1
    /\ last.log[1].inten = 1
    /\ Count(last.log, "index") = 1
    /\ Yielded(last.yields) = 1
    /\ Rearmed(last.log)

\* C16: get() and set_client() leave counter and accumulator as they were,
\* set_client() leaves the registers as they were too, and counter and
\* accumulator change only in a handler invocation.
C16_ControlSurfaceFrame ==
    [][/\ last'.op = "get" => index' = index /\ randomness' = randomness
       /\ last'.op = "set_client" =>
             index' = index /\ randomness' = randomness /\ hw' = hw
       /\ index' # index \/ randomness' # randomness => last'.op = "irq"]_vars

C16_Witness ==
    /\ last.op = "get"
    /\ last.prevOp = "set_client"
    /\ index \in 1..3
    /\ randomness # W0

\* C17: a draw that finds the counter different from 4 yields nothing and
\* leaves counter and accumulator as they were.
C17_DrawOffReadyIsNoOp ==
    last.op = "draw" /\ last.preIndex # 4 =>
        /\ last.yields = <<None>>
        /\ index = last.preIndex
        /\ randomness = last.preRandomness

C17_Witness ==
    /\ last.op = "draw"
    /\ last.preIndex = 2
    /\ last.preRandomness[0] # 0
    /\ last.preRandomness[3] # 0

\* C18 as stated: from a state with the counter above 4, the interrupt enabled
\* at the peripheral and at the NVIC, generation started and a client
\* registered, a word is eventually yielded to the client.
C18_Original ==
    (/\ index > 4
     /\ hw.inten = 1 /\ hw.nvic_en = 1 /\ hw.started = 1
     /\ client # NoClient) ~> Delivered

\* C19: the bytes read since the accumulator was last zero are as many as the
\* counter says; a callback obtains at most one word, that word consumes
\* exactly four bytes read since the previous word, and after it no byte read
\* remains in the driver.
C19_FourFreshBytesPerWord ==
    /\ Len(cycle) = index
    /\ Delivered =>
          /\ Yielded(last.yields) = 1
          /\ Len(last.preCycle) = 4
          /\ cycle = <<>>
          /\ index = 0
          /\ randomness = W0

C19_Witness ==
    /\ Delivered
    /\ cycles >= 2
    /\ Len(last.yields) >= 2

\* C20: while the counter is 4 no step reads the value register; a callback
\* that draws is given the stored word; and unless a callback obtains the
\* word, a step leaves the counter at 4 and the accumulator as it was.
C20_WordKeptUntilDrawn ==
    [][index = 4 =>
          /\ Count(last'.log, "value") = 0
          /\ last'.op = "irq" /\ Len(last'.yields) >= 1 =>
                last'.yields[1] = Some(randomness)
          /\ ~(last'.op = "irq" /\ Yielded(last'.yields) >= 1) =>
                index' = 4 /\ randomness' = randomness /\ cycle' = cycle]_vars

C20_Witness ==
    /\ last.op = "irq"
    /\ last.preIndex = 4
    /\ last.preOrphaned
    /\ last.called # NoClient
    /\ last.yields = <<>>
    /\ index = 4
    /\ randomness = last.preRandomness
    /\ randomness # W0

====
